---- MODULE Spec2Model ----
(***************************************************************************)
(* Model of invenv's environment cache and lock protocol:                  *)
(* Script.EnsureEnv (cmd/script.go) together with lockEnv, unlockEnv,      *)
(* isEnvLocked and waitUntilEnvIsUnlocked (cmd/utils.go).                  *)
(*                                                                         *)
(* Several OS processes call EnsureEnv for the same environment directory. *)
(* They share only the file system: the lock marker and the environment    *)
(* directory.  Every access to the file system, and every start and end of *)
(* an external tool, is one atomic step of one process.                    *)
(***************************************************************************)
EXTENDS Naturals, FiniteSets, Sequences

\* ---- bounds --------------------------------------------------------------
\* number of concurrent processes
NumProcs == 2
\* total number of EnsureEnv calls started in one behaviour
MaxCalls == 2
\* LockStaleTime (15 minutes) counted in one-second polls, scaled down
LockStalePolls == 2

\* pip runs counted in one behaviour of the hash-file design
MaxPipRuns == 2
\* longest requirements file, in bytes
MaxContentLen == 2
\* longest interpreter version string, in bytes
MaxVersionLen == 2

Procs == 1 .. NumProcs

\* environment IDs a caller may carry (Script.venvID)
EnvIDs == {"idA", "idB"}
\* content of a missing .venv info file
NoInfo == "none"

VARIABLES
    linux,              \* runtime.GOOS == "linux"
    fromInitCommand,    \* Script.fromInitCommand of the callers of this directory
    hasRequirements,    \* Script.RequirementsPath != ""
    lockFile,           \* the lock marker exists
    lockOld,            \* the marker was last written more than LockStaleTime ago
    env,                \* the environment directory
    calls,              \* EnsureEnv calls started so far
    pc,                 \* position of each process inside EnsureEnv
    venvID,             \* Script.venvID of the current call
    deleteOldEnv,       \* parameter / local of EnsureEnv
    readOperationOnly,  \* local of EnsureEnv
    waited,             \* seconds slept so far inside waitUntilEnvIsUnlocked
    lockRet,            \* what lockEnv returned to the current call ("none": not called)
    result,             \* what EnsureEnv returns
    hist,               \* history of the current call (observation only; scan is
                        \* the outcome of the process scan of the latest sleep)
    last,               \* sequential callers only: what the previous call did, kept
                        \* while the next call repeats it with unchanged inputs
    \* -- the hash-file design: CreateEnv(forceNewEnv), InstallRequirementsInEnv(filename)
    hashEnv,            \* its environment directory and the stored requirements hash
    reqHash,            \* getFileHash of the requirements file as it is now
    pipRuns,            \* pip install invocations so far
    hpc,                \* "idle", or "install" between CreateEnv and the install
    hobs,               \* outcome of the last InstallRequirementsInEnv (observation)
    \* -- the environment ID: NewScript / NewInitCmd on two inputs
    fpA,                \* first input: requirements file and interpreter version
    fpB,                \* second input
    fpOut,              \* what NewScript computed for each ("none" before)
    \* -- clearStaleEnvs, for the one modelled directory entry
    cpc,                \* position of the reclamation pass
    cobs,               \* what the pass saw and did (observation)
    \* -- two environment directories A and B
    dirA, dirB,         \* their paths, character by character
    markerA, markerB,   \* whether the lock marker of each exists
    phaseA,             \* what the EnsureEnv call for A is doing
    bpc,                \* position of the waitUntilEnvIsUnlocked call for B
    bwaited,            \* its one-second sleeps so far
    bobs,               \* what it saw (observation)
    \* -- getRequirementsFileForScript and organizeArgs
    rqIn, rqOut,        \* a call of getRequirementsFileForScript and its result
    argsIn, argsOut     \* a call of organizeArgs and its result

vars == << linux, fromInitCommand, hasRequirements, lockFile, env, calls, pc,
           venvID, deleteOldEnv, readOperationOnly, waited, lockRet, result,
           hist, last, lockOld, hashEnv, reqHash, pipRuns, hpc, hobs,
           fpA, fpB, fpOut, cpc, cobs,
           dirA, dirB, markerA, markerB, phaseA, bpc, bwaited, bobs,
           rqIn, rqOut, argsIn, argsOut >>

\* the variables of EnsureEnv and of its callers
mainVars == << linux, fromInitCommand, hasRequirements, lockFile, env, calls,
               pc, venvID, deleteOldEnv, readOperationOnly, waited, lockRet,
               result, hist, last, lockOld >>

\* the variables EnsureEnv never touches
hashVars == << hashEnv, reqHash, pipRuns, hpc, hobs >>

fpVars == << fpA, fpB, fpOut >>

clearVars == << cpc, cobs >>

dirVars == << dirA, dirB, markerA, markerB, phaseA, bpc, bwaited, bobs >>

pureVars == << rqIn, rqOut, argsIn, argsOut >>

sideVars == << hashVars, fpVars, clearVars, dirVars, pureVars >>

\* the variables the hash-file design never touches
outsideHash == << mainVars, fpVars, clearVars, dirVars, pureVars >>

config == << linux, fromInitCommand, hasRequirements >>

\* ---- the environment directory ------------------------------------------
\* exists:    the directory is present (os.Stat succeeds)
\* built:     the environment-creation tool completed on it
\* installed: pip install completed on it
\* info:      content of the info file (init mode), NoInfo if there is none
AbsentEnv == [exists |-> FALSE, built |-> FALSE, installed |-> FALSE, info |-> NoInfo]

CompleteEnv(id) == [exists |-> TRUE, built |-> TRUE, installed |-> TRUE, info |-> id]

\* a complete environment that matches the caller's environment ID
IsValidEnv(e, id) ==
    /\ e.exists
    /\ e.built
    /\ (hasRequirements => e.installed)
    /\ (fromInitCommand => e.info = id)

\* no previous call to repeat
NoLast == [id |-> "none", absent |-> FALSE, built |-> FALSE]

NoHist == [sawAbsent |-> FALSE, fastPath |-> FALSE,
           firstCheck |-> "none", slept |-> FALSE, stale |-> "none",
           didRemove |-> FALSE, didCreate |-> FALSE, didInstall |-> FALSE,
           failKind |-> "none", osRemove |-> "none", unlockRet |-> "none",
           record |-> "none", scan |-> "none"]

\* ---- lock file primitives (cmd/utils.go) --------------------------------
\* isEnvLocked: os.Stat of the marker
isEnvLocked(l) == l

\* os.Create of the marker (O_CREAT|O_TRUNC): succeeds whether or not it exists
createLockFile(l) == TRUE

\* unlockEnv: os.Remove of the marker; a missing marker is no error
unlockEnv_Keep(l) == l

unlockEnv(l) == FALSE

\* what os.Remove returns for the marker: ENOENT when it is not there
osRemove(l) == IF l THEN "nil" ELSE "ENOENT"

\* `if os.IsNotExist(err) { return nil }; return err`
unlockErr_Raw(e) == e

unlockErr(e) == IF e = "ENOENT" THEN "nil" ELSE e

\* command lines are strings cut into pieces; s.EnvDir is one piece
EnvDirPath == << "envDir" >>

\* /proc/<pid>/cmdline of the child process EnsureEnv is running for q, if any:
\* `<python> -m venv <envDir>` in CreateEnv, `<envDir>/bin/pip install --no-input
\* -r <requirements>` in InstallRequirementsInEnv
CmdLine(q) ==
    IF pc[q] = "creating" THEN << "python3", "-m", "venv" >> \o EnvDirPath
    ELSE IF pc[q] = "installing"
      THEN EnvDirPath \o << "/bin/pip", "install", "--no-input", "-r", "requirements" >>
    ELSE << >>

\* strings.HasPrefix(cmdline, prefix)
HasPrefix(cmdline, prefix) ==
    /\ Len(prefix) <= Len(cmdline)
    /\ SubSeq(cmdline, 1, Len(prefix)) = prefix

\* findProcessWithPrefix(envDir) finds a process (it returns ErrNoProcessFound
\* otherwise)
ProcessWithPrefix == \E q \in Procs : HasPrefix(CmdLine(q), EnvDirPath)

\* what findProcessWithPrefix returns: an error of os.Open("/proc") or of
\* Readdirnames, a pid, or ErrNoProcessFound
ScanResult(scanFails) ==
    IF scanFails THEN "error"
    ELSE IF ProcessWithPrefix THEN "found"
    ELSE "ErrNoProcessFound"

\* waitUntilEnvIsUnlocked: `if err == ErrNoProcessFound { return err }`
ScanMeansStale_AnyError(res) == res # "found"

ScanMeansStale(res) == res = "ErrNoProcessFound"

\* ---- control flow of EnsureEnv ------------------------------------------
\* first statement of the loop of waitUntilEnvIsUnlocked: the lock check
WaitLoopEntry_SleepFirst == "sleep"

WaitLoopEntry == "wait"

\* `if time.Since(now) > LockStaleTime { return errStaleLockfile }`, with w
\* one-second sleeps done before this one
errStaleLockfile_Never(w) == FALSE

errStaleLockfile(w) == w + 1 > LockStalePolls

\* EnsureEnv on ErrNoProcessFound or errStaleLockfile: no return, on to lockEnv
AfterStaleWait_Fatal == "done"

AfterStaleWait == "lock"

\* `deleteOldEnv = true` when the info file holds another environment ID
MismatchDeleteOldEnv_Keep(del, mismatch) == del

MismatchDeleteOldEnv(del, mismatch) == del \/ mismatch

\* the call stays read-only after the info file was looked at
RecordAllowsReadOnly_Always(readErr, mismatch) == TRUE

RecordAllowsReadOnly(readErr, mismatch) == ~readErr /\ ~mismatch

\* `deleteOldEnv = true` on a stale lock, whatever the caller asked for
StaleDeleteOldEnv_Keep(del) == del

StaleDeleteOldEnv(del) == TRUE

\* `if !readOperationOnly { lockEnv ... }` after a wait that returned nil
AfterWait_AlwaysLock(ro) == "lock"

AfterWait(ro) == IF ro THEN "done" ELSE "lock"

\* `if deleteOldEnv { RemoveEnv }` then CreateEnv
AfterLock_SkipRemove(del) == "create"

AfterLock(del) == IF del THEN "remove" ELSE "create"

\* InstallRequirementsInEnv: `if s.RequirementsPath == "" { return nil }`
InstallNeeded_Always(req) == TRUE

InstallNeeded(req) == req

\* after a successful InstallRequirementsInEnv
AfterInstall_NoRecord == "unlock"

AfterInstall == IF fromInitCommand THEN "writeInfo" ELSE "unlock"

\* the process is between lockEnv and unlockEnv
LockedSection == {"remove", "create", "creating", "install", "installing",
                  "cleanup", "writeInfo", "unlock"}

\* the process is removing, creating or installing into the directory
Mutating == {"remove", "create", "creating", "install", "installing",
             "cleanup", "writeInfo"}

InSection(p) == pc[p] \in LockedSection

\* ---- the hash-file design -------------------------------------------------
\* requirements hashes (results of getFileHash)
Hashes == {"h1", "h2"}
\* no .previous_requirements_hash file
NoHash == "nohash"
\* getFileHash fails (the requirements file cannot be read)
Unreadable == "unreadable"

NoHashEnv == [exists |-> FALSE, hash |-> NoHash]

\* observation of a run: how it ended, and the hash the install step found stored
Obs(out, prev) == [out |-> out, prev |-> prev]

NoObs == Obs("none", NoHash)

\* `err == nil && newReqFileHash == string(oldReqFileHash)`
SameHash_Never(old, new) == FALSE

SameHash(old, new) == old # NoHash /\ old = new

\* ---- the environment ID (cmd/utils.go, NewScript) ---------------------------
\* Strings are sequences of bytes. The model has three byte values: the hex
\* digits "1" and "2" and the underscore; no byte of these strings is zero.
HexDigits == {1, 2}
Underscore == 3
Bytes == HexDigits \cup {Underscore}

\* stand-ins for 256 (big.Int.SetBytes) and 62 (base62.EncodeBigInt)
ByteBase == 4
EncBase == 3

\* stand-in for the 8 hex digits getFileHash keeps of the digest
HashLen == 1

\* all sequences over S of length lo .. hi
SeqsUpTo(S, lo, hi) == UNION {[1 .. n -> S] : n \in lo .. hi}

\* requirements file contents and `python --version` outputs after TrimSpace
Contents == SeqsUpTo(HexDigits, 0, MaxContentLen)
Versions == SeqsUpTo(Bytes, 0, MaxVersionLen)

\* requirementsFile == "", a file that cannot be read, and the readable files
NoFile == [present |-> FALSE, readable |-> FALSE, content |-> << >>]
UnreadableFile == [present |-> TRUE, readable |-> FALSE, content |-> << >>]
ReqFile(c) == [present |-> TRUE, readable |-> TRUE, content |-> c]

FpInputs == [file : {NoFile, UnreadableFile} \cup {ReqFile(c) : c \in Contents},
             version : Versions]

\* sha1 digest in hex. SHA-1 itself is taken to be free of collisions on the
\* modelled contents: the content, an end mark, padding (MaxContentLen + 1 digits)
Sha1Hex(c) == c \o << 2 >> \o [i \in 1 .. (MaxContentLen - Len(c)) |-> 1]

\* `fmt.Sprintf("%x", hashBS)[:8]`
getFileHash(c) == SubSeq(Sha1Hex(c), 1, HashLen)

\* NewScript: `requirementsHash := ""`, replaced by getFileHash when there is a file
requirementsHash_EmptyFile(file) == getFileHash(file.content)

requirementsHash(file) == IF file.present THEN getFileHash(file.content) ELSE << >>

\* big.NewInt(0).SetBytes: the bytes as one big-endian number
RECURSIVE SetBytes(_)
SetBytes(b) ==
    IF b = << >> THEN 0
    ELSE SetBytes(SubSeq(b, 1, Len(b) - 1)) * ByteBase + b[Len(b)]

\* base62.EncodeBigInt: the digits of n, most significant first ("0" for zero)
RECURSIVE EncodeDigits(_)
EncodeDigits(n) ==
    IF n = 0 THEN << >>
    ELSE Append(EncodeDigits(n \div EncBase), n % EncBase)

EncodeBigInt(n) == IF n = 0 THEN << 0 >> ELSE EncodeDigits(n)

\* generateEnvID: fmt.Sprintf("%s_%s", requirementsHash, pythonVersion), encoded
generateEnvID(hash, pythonVersion) ==
    EncodeBigInt(SetBytes(hash \o << Underscore >> \o pythonVersion))

\* NewScript / NewInitCmd up to the environment ID; getFileHash fails on a
\* file it cannot read
NewScriptID(in) ==
    IF in.file.present /\ ~in.file.readable
      THEN [err |-> TRUE, hash |-> << >>, id |-> << >>]
      ELSE [err |-> FALSE,
            hash |-> requirementsHash(in.file),
            id |-> generateEnvID(requirementsHash(in.file), in.version)]

NoFpOut == [done |-> FALSE]

FpIdle ==
    /\ fpA = [file |-> NoFile, version |-> << >>]
    /\ fpB = [file |-> NoFile, version |-> << >>]
    /\ fpOut = NoFpOut

HashIdle ==
    /\ hashEnv = NoHashEnv
    /\ reqHash = "h1"
    /\ pipRuns = 0
    /\ hpc = "idle"
    /\ hobs = NoObs

\* ---- removeDir and clearStaleEnvs (cmd/utils.go) ---------------------------
\* directory paths, in pieces; a path may hold any text
DirPaths == {EnvDirPath, << "permission denied" >> \o EnvDirPath}

\* syscall.Errno.Error()
ErrnoText(e) ==
    CASE e = "EACCES" -> << "permission denied" >>
      [] e = "EPERM" -> << "operation not permitted" >>
      [] OTHER -> << "device or resource busy" >>

\* (*fs.PathError).Error(): Op + " " + Path + ": " + Err.Error()
PathErrorText(dir, e) == << "unlinkat" >> \o dir \o << ": " >> \o ErrnoText(e)

\* strings.Contains, on pieces
Contains(s, substr) ==
    \E i \in 0 .. Len(s) :
        /\ i + Len(substr) <= Len(s)
        /\ SubSeq(s, i + 1, i + Len(substr)) = substr

\* removeDir: what it returns and whether it ran `sudo rm -rf`
removeDir(dir, rmErr, sudoOk) ==
    IF rmErr = "nil" THEN [ret |-> "nil", sudo |-> FALSE]
    ELSE IF Contains(PathErrorText(dir, rmErr), << "permission denied" >>)
      THEN [ret |-> IF sudoOk THEN "nil" ELSE "err", sudo |-> TRUE]
    ELSE [ret |-> "err", sudo |-> FALSE]

NoCobs == [old |-> FALSE, removed |-> FALSE, dir |-> EnvDirPath, rmErr |-> "none",
           sudoOk |-> FALSE, ret |-> "none", sudo |-> FALSE]

ClearIdle ==
    /\ cpc = "idle"
    /\ cobs = NoCobs

\* ---- two environment directories (cmd/utils.go) ---------------------------
MaxPathLen == 3

PathChars == {"/", "a", "b"}

\* cleaned absolute paths, as path.Join returns them for EnvDir
CleanPaths ==
    {p \in SeqsUpTo(PathChars, 2, MaxPathLen) :
        /\ p[1] = "/"
        /\ p[Len(p)] # "/"
        /\ \A i \in 1 .. Len(p) - 1 : ~(p[i] = "/" /\ p[i + 1] = "/")}

\* index of the last slash of a cleaned absolute path
LastSlash(p) == CHOOSE i \in 1 .. Len(p) :
                    p[i] = "/" /\ \A j \in i + 1 .. Len(p) : p[j] # "/"

\* path.Dir
PathDir(p) == IF LastSlash(p) = 1 THEN << "/" >> ELSE SubSeq(p, 1, LastSlash(p) - 1)

\* path.Base
PathBase(p) == SubSeq(p, LastSlash(p) + 1, Len(p))

\* path.Join of a cleaned directory and a name
PathJoin(d, name) == IF d = << "/" >> THEN d \o name ELSE d \o << "/" >> \o name

\* generateLockFileName
generateLockFileName(envDir) == PathJoin(PathDir(envDir), PathBase(envDir) \o << ".lock" >>)

\* the lock markers present in the file system
MarkerFiles ==
    (IF markerA THEN {generateLockFileName(dirA)} ELSE {})
        \cup (IF markerB THEN {generateLockFileName(dirB)} ELSE {})

\* isEnvLocked(envDir): os.Stat of the marker
isEnvLockedDir(envDir) == generateLockFileName(envDir) \in MarkerFiles

\* command lines of the processes running for A (CreateEnv,
\* InstallRequirementsInEnv)
DirCmdLines ==
    CASE phaseA = "creating" -> {<< "python3", "-m", "venv" >> \o dirA}
      [] phaseA = "installing" ->
            {dirA \o << "/bin/pip", "install", "--no-input", "-r", "requirements" >>}
      [] OTHER -> {}

\* findProcessWithPrefix(envDir)
findProcessWithPrefix(envDir) ==
    IF \E c \in DirCmdLines : HasPrefix(c, envDir) THEN "found" ELSE "ErrNoProcessFound"

NoBobs == [judgedLocked |-> FALSE, scan |-> "none", ret |-> "none"]

DirsIdle ==
    /\ dirA = << "/", "a" >>
    /\ dirB = << "/", "b" >>
    /\ markerA = FALSE
    /\ markerB = FALSE
    /\ phaseA = "idle"
    /\ bpc = "idle"
    /\ bwaited = 0
    /\ bobs = NoBobs

\* ---- getRequirementsFileForScript (cmd/utils.go) --------------------------
\* a path is a directory ("" when the path is relative) and a file name in
\* pieces
Path(dir, file) == [dir |-> dir, file |-> file]

NoPath == Path("", << >>)

Cwd == "/cwd"

\* path.IsAbs
IsAbs(p) == p.dir # ""

\* filepath.Abs: needs os.Getwd for a relative path
Abs(p, cwdOk) ==
    IF IsAbs(p) THEN [err |-> FALSE, path |-> p]
    ELSE IF cwdOk THEN [err |-> FALSE, path |-> Path(Cwd, p.file)]
    ELSE [err |-> TRUE, path |-> NoPath]

\* strings.TrimSuffix(name, ".py")
TrimSuffixPy(name) ==
    IF Len(name) > 0 /\ name[Len(name)] = ".py"
      THEN SubSeq(name, 1, Len(name) - 1) ELSE name

\* the name patterns, in the order they are tried
Guesses_PlainFirst(scriptFile) ==
    << << "requirements", ".txt" >>,
       << "requirements_" >> \o scriptFile \o << ".txt" >>,
       scriptFile \o << "_requirements", ".txt" >> >>

Guesses(scriptFile) ==
    << << "requirements_" >> \o scriptFile \o << ".txt" >>,
       scriptFile \o << "_requirements", ".txt" >>,
       << "requirements", ".txt" >> >>

\* `for _, guess := range guesses`: the first one os.Stat finds, from guess i on
RECURSIVE FirstGuess(_, _, _, _)
FirstGuess(scriptDir, guesses, i, fs) ==
    IF i > Len(guesses) THEN NoPath
    ELSE IF Path(scriptDir, guesses[i]) \in fs THEN Path(scriptDir, guesses[i])
    ELSE FirstGuess(scriptDir, guesses, i + 1, fs)

getRequirementsFileForScript(scriptPath, requirementsOverride, cwdOk, fs) ==
    LET abs == Abs(scriptPath, cwdOk)
    IN  IF abs.err THEN [err |-> TRUE, path |-> NoPath]
        ELSE IF requirementsOverride # NoPath
          THEN IF ~IsAbs(requirementsOverride)
                 THEN IF cwdOk
                        THEN [err |-> FALSE, path |-> Path(Cwd, requirementsOverride.file)]
                        ELSE [err |-> TRUE, path |-> NoPath]
                 ELSE [err |-> FALSE, path |-> requirementsOverride]
        ELSE [err |-> FALSE,
              path |-> FirstGuess(abs.path.dir, Guesses(TrimSuffixPy(abs.path.file)), 1, fs)]

\* the scripts, overrides and files of the checked calls
ScriptPaths == {Path(d, f) : d \in {"", "/dir"}, f \in {<< "s", ".py" >>, << "s" >>}}

Overrides == {NoPath, Path("", << "r", ".txt" >>), Path("/other", << "r", ".txt" >>)}

GuessFiles == {Path(d, Guesses(<< "s" >>)[i]) : d \in {Cwd, "/dir"}, i \in 1 .. 3}

RqInputs == [script : ScriptPaths, override : Overrides, cwdOk : BOOLEAN,
             fs : SUBSET GuessFiles]

NoRqOut == [done |-> FALSE]

\* ---- organizeArgs (cmd/utils.go) ------------------------------------------
MaxArgLen == 1
MaxArgs == 4

\* command-line arguments: any text, the empty text too
ArgTexts == SeqsUpTo({"a", "="}, 0, MaxArgLen)

ArgLists == SeqsUpTo(ArgTexts, 0, MaxArgs)

\* strings.Contains(el, "=")
ContainsEq_Never(el) == FALSE

ContainsEq(el) == \E i \in 1 .. Len(el) : el[i] = "="

\* the loop of organizeArgs from element i on
RECURSIVE organizeFrom(_, _, _)
organizeFrom(args, i, acc) ==
    IF i > Len(args) THEN acc
    ELSE LET el == args[i]
         IN  IF ~acc.foundName /\ ContainsEq(el)
               THEN organizeFrom(args, i + 1, [acc EXCEPT !.envVars = Append(@, el)])
             ELSE IF ~acc.foundName
               THEN organizeFrom(args, i + 1,
                                 [acc EXCEPT !.scriptName = el, !.foundName = TRUE])
             ELSE organizeFrom(args, i + 1, [acc EXCEPT !.scriptArgs = Append(@, el)])

organizeArgs(args) ==
    organizeFrom(args, 1, [envVars |-> << >>, scriptName |-> << >>,
                           scriptArgs |-> << >>, foundName |-> FALSE])

NoArgsOut == [done |-> FALSE]

PureIdle ==
    /\ rqIn = [script |-> Path("/dir", << "s" >>), override |-> NoPath,
               cwdOk |-> TRUE, fs |-> {}]
    /\ rqOut = NoRqOut
    /\ argsIn = << >>
    /\ argsOut = NoArgsOut

SideIdle == HashIdle /\ FpIdle /\ ClearIdle /\ DirsIdle /\ PureIdle

\* ---- initial states ------------------------------------------------------
MainInit ==
    /\ linux \in BOOLEAN
    /\ fromInitCommand \in BOOLEAN
    /\ hasRequirements \in BOOLEAN
    /\ lockFile \in BOOLEAN
    \* a marker left behind before the first call may be of any age
    /\ lockOld \in IF lockFile THEN BOOLEAN ELSE {FALSE}
    /\ env \in {AbsentEnv} \cup
               {CompleteEnv(IF fromInitCommand THEN "idA" ELSE NoInfo)}
    /\ calls = 0
    /\ pc = [p \in Procs |-> "idle"]
    /\ venvID = [p \in Procs |-> "idA"]
    /\ deleteOldEnv = [p \in Procs |-> FALSE]
    /\ readOperationOnly = [p \in Procs |-> FALSE]
    /\ waited = [p \in Procs |-> 0]
    /\ lockRet = [p \in Procs |-> "none"]
    /\ result = [p \in Procs |-> "none"]
    /\ hist = [p \in Procs |-> NoHist]
    /\ last = NoLast

Init == MainInit /\ SideIdle

\* ---- EnsureEnv -----------------------------------------------------------
\* a process calls EnsureEnv(del) on a Script with environment ID id
Call(p, del, id) ==
    /\ pc[p] = "idle"
    /\ calls < MaxCalls
    /\ fromInitCommand \/ id = "idA"
    /\ calls' = calls + 1
    /\ pc' = [pc EXCEPT ![p] = "stat"]
    /\ venvID' = [venvID EXCEPT ![p] = id]
    /\ deleteOldEnv' = [deleteOldEnv EXCEPT ![p] = del]
    /\ readOperationOnly' = [readOperationOnly EXCEPT ![p] = ~del]
    /\ UNCHANGED << config, sideVars, lockFile, lockOld, env, waited, lockRet, result, hist >>

Start(p, del, id) == Call(p, del, id) /\ UNCHANGED last

\* the same call made by a sequential caller: it repeats the previous call if
\* that one succeeded with the same environment ID and no rebuild is forced
SeqStart(p, del, id) ==
    /\ Call(p, del, id)
    /\ last' = IF ~del /\ id = last.id THEN last ELSE NoLast

\* os.Stat(s.EnvDir)
StatEnvDir(p) ==
    /\ pc[p] = "stat"
    /\ LET ro == readOperationOnly[p] /\ env.exists
           toInfo == fromInitCommand /\ ro
       IN /\ readOperationOnly' = [readOperationOnly EXCEPT ![p] = ro]
          /\ pc' = [pc EXCEPT ![p] = IF toInfo THEN "info" ELSE WaitLoopEntry]
          /\ hist' = [hist EXCEPT ![p].sawAbsent = ~env.exists,
                                  ![p].fastPath = ~toInfo /\ ro /\ IsValidEnv(env, venvID[p])]
    /\ UNCHANGED << config, sideVars, lockFile, env, calls, venvID, deleteOldEnv,
                    waited, lockRet, result, last, lockOld >>

\* init mode: os.ReadFile of the info file and comparison with s.venvID
ReadInfo(p) ==
    /\ pc[p] = "info"
    /\ LET readErr == ~env.exists \/ env.info = NoInfo
           mismatch == ~readErr /\ env.info # venvID[p]
           ro == RecordAllowsReadOnly(readErr, mismatch)
       IN /\ readOperationOnly' = [readOperationOnly EXCEPT ![p] = ro]
          /\ deleteOldEnv' = [deleteOldEnv EXCEPT ![p] = MismatchDeleteOldEnv(@, mismatch)]
          /\ hist' = [hist EXCEPT ![p].fastPath = ro /\ IsValidEnv(env, venvID[p]),
                                  ![p].record = IF readErr THEN "unreadable"
                                                ELSE IF mismatch THEN "mismatch"
                                                ELSE "match"]
    /\ pc' = [pc EXCEPT ![p] = WaitLoopEntry]
    /\ UNCHANGED << config, sideVars, lockFile, env, calls, venvID, waited, lockRet, result, last, lockOld >>

\* waitUntilEnvIsUnlocked: `if !isEnvLocked(envDir) { return nil }`
WaitCheck(p) ==
    /\ pc[p] = "wait"
    /\ hist' = [hist EXCEPT ![p].firstCheck =
                    IF hist[p].firstCheck # "none" THEN hist[p].firstCheck
                    ELSE IF isEnvLocked(lockFile) THEN "locked" ELSE "free",
                            ![p].scan = "none"]
    /\ IF isEnvLocked(lockFile)
         THEN /\ pc' = [pc EXCEPT ![p] = "sleep"]
              /\ UNCHANGED result
         ELSE /\ pc' = [pc EXCEPT ![p] = AfterWait(readOperationOnly[p])]
              /\ result' = [result EXCEPT ![p] =
                               IF AfterWait(readOperationOnly[p]) = "done"
                                 THEN "ok" ELSE result[p]]
    /\ waited' = [waited EXCEPT ![p] = IF isEnvLocked(lockFile) THEN waited[p] ELSE 0]
    /\ UNCHANGED << config, sideVars, lockFile, env, calls, venvID, deleteOldEnv,
                    readOperationOnly, lockRet, last, lockOld >>

\* waitUntilEnvIsUnlocked: time.Sleep, the age check and the process scan
\* (scanFails: findProcessWithPrefix returns an error of its own).
\* Either staleness error makes EnsureEnv recreate the environment.
Sleep(p, scanFails) ==
    /\ pc[p] = "sleep"
    /\ scanFails => (linux /\ ~errStaleLockfile(waited[p]))
    /\ LET scan == IF linux /\ ~errStaleLockfile(waited[p])
                     THEN ScanResult(scanFails) ELSE "skipped"
           err == IF errStaleLockfile(waited[p]) THEN "errStaleLockfile"
                  ELSE IF scan # "skipped" /\ ScanMeansStale(scan) THEN "ErrNoProcessFound"
                  ELSE "none"
       IN /\ hist' = [hist EXCEPT ![p].slept = TRUE, ![p].stale = err, ![p].scan = scan]
          /\ IF err # "none"
               THEN /\ readOperationOnly' = [readOperationOnly EXCEPT ![p] = FALSE]
                    /\ deleteOldEnv' = [deleteOldEnv EXCEPT ![p] = StaleDeleteOldEnv(@)]
                    /\ pc' = [pc EXCEPT ![p] = AfterStaleWait]
                    /\ result' = [result EXCEPT ![p] =
                                     IF AfterStaleWait = "done" THEN "err" ELSE result[p]]
                    /\ waited' = [waited EXCEPT ![p] = 0]
               ELSE /\ pc' = [pc EXCEPT ![p] = "wait"]
                    /\ waited' = [waited EXCEPT ![p] = waited[p] + 1]
                    /\ UNCHANGED << readOperationOnly, deleteOldEnv, result >>
    /\ UNCHANGED << config, sideVars, lockFile, env, calls, venvID, lockRet, last, lockOld >>

\* lockEnv: os.Stat of the marker; "Already locked" returns nil
LockStat(p) ==
    /\ pc[p] = "lock"
    /\ IF isEnvLocked(lockFile)
         THEN /\ lockRet' = [lockRet EXCEPT ![p] = "nil"]
              /\ pc' = [pc EXCEPT ![p] = AfterLock(deleteOldEnv[p])]
         ELSE /\ pc' = [pc EXCEPT ![p] = "lockCreate"]
              /\ UNCHANGED lockRet
    /\ UNCHANGED << config, sideVars, lockFile, env, calls, venvID, deleteOldEnv,
                    readOperationOnly, waited, result, hist, last, lockOld >>

\* lockEnv: os.MkdirAll and os.Create; EnsureEnv ignores the returned error
LockCreate(p, ok) ==
    /\ pc[p] = "lockCreate"
    /\ lockFile' = IF ok THEN createLockFile(lockFile) ELSE lockFile
    /\ lockOld' = IF ok THEN FALSE ELSE lockOld
    /\ lockRet' = [lockRet EXCEPT ![p] = IF ok THEN "nil" ELSE "err"]
    /\ pc' = [pc EXCEPT ![p] = AfterLock(deleteOldEnv[p])]
    /\ UNCHANGED << config, sideVars, env, calls, venvID, deleteOldEnv,
                    readOperationOnly, waited, result, hist, last >>

\* `if deleteOldEnv { err = s.RemoveEnv(); if err != nil { return err } }`
RemoveEnv(p, ok) ==
    /\ pc[p] = "remove"
    /\ hist' = [hist EXCEPT ![p].didRemove = TRUE,
                            ![p].failKind = IF ok THEN hist[p].failKind ELSE "remove"]
    /\ IF ok
         THEN /\ env' = AbsentEnv
              /\ pc' = [pc EXCEPT ![p] = "create"]
              /\ UNCHANGED result
         ELSE /\ env' = env
              /\ pc' = [pc EXCEPT ![p] = "unlock"]
              /\ result' = [result EXCEPT ![p] = "err"]
    /\ UNCHANGED << config, sideVars, lockFile, calls, venvID, deleteOldEnv,
                    readOperationOnly, waited, lockRet, last, lockOld >>

\* CreateEnv: the creation tool is started on s.EnvDir (ok), or no tool is
\* found and CreateEnv fails before touching the directory
CreateStart(p, ok) ==
    /\ pc[p] = "create"
    /\ IF ok
         THEN /\ env' = [env EXCEPT !.exists = TRUE, !.built = FALSE]
              /\ pc' = [pc EXCEPT ![p] = "creating"]
              /\ hist' = [hist EXCEPT ![p].didCreate = TRUE]
              /\ UNCHANGED result
         ELSE /\ env' = env
              /\ pc' = [pc EXCEPT ![p] = "unlock"]
              /\ hist' = [hist EXCEPT ![p].failKind = "create"]
              /\ result' = [result EXCEPT ![p] = "err"]
    /\ UNCHANGED << config, sideVars, lockFile, calls, venvID, deleteOldEnv,
                    readOperationOnly, waited, lockRet, last, lockOld >>

\* CreateEnv: the creation tool exits; on failure EnsureEnv returns the error
\* and leaves what the tool wrote
CreateFinish(p, ok) ==
    /\ pc[p] = "creating"
    /\ ok => env.exists
    /\ IF ok
         THEN /\ env' = [env EXCEPT !.built = TRUE]
              /\ pc' = [pc EXCEPT ![p] = "install"]
              /\ UNCHANGED << hist, result >>
         ELSE /\ env' = env
              /\ pc' = [pc EXCEPT ![p] = "unlock"]
              /\ hist' = [hist EXCEPT ![p].failKind = "create"]
              /\ result' = [result EXCEPT ![p] = "err"]
    /\ UNCHANGED << config, sideVars, lockFile, calls, venvID, deleteOldEnv,
                    readOperationOnly, waited, lockRet, last, lockOld >>

\* InstallRequirementsInEnv: nothing to do without a requirements file,
\* otherwise <envDir>/bin/pip is started (and cannot be if the directory is gone)
InstallStart(p) ==
    /\ pc[p] = "install"
    /\ IF ~InstallNeeded(hasRequirements)
         THEN /\ pc' = [pc EXCEPT ![p] = AfterInstall]
              /\ result' = [result EXCEPT ![p] =
                               IF AfterInstall = "unlock" THEN "ok" ELSE result[p]]
              /\ UNCHANGED << env, hist >>
         ELSE IF ~env.exists
           THEN /\ pc' = [pc EXCEPT ![p] = "cleanup"]
                /\ hist' = [hist EXCEPT ![p].didInstall = TRUE, ![p].failKind = "install"]
                /\ UNCHANGED << env, result >>
           ELSE /\ pc' = [pc EXCEPT ![p] = "installing"]
                /\ env' = [env EXCEPT !.installed = FALSE]
                /\ hist' = [hist EXCEPT ![p].didInstall = TRUE]
                /\ UNCHANGED result
    /\ UNCHANGED << config, sideVars, lockFile, calls, venvID, deleteOldEnv,
                    readOperationOnly, waited, lockRet, last, lockOld >>

\* InstallRequirementsInEnv: pip exits
InstallFinish(p, ok) ==
    /\ pc[p] = "installing"
    /\ ok => env.exists
    /\ IF ok
         THEN /\ env' = [env EXCEPT !.installed = TRUE]
              /\ pc' = [pc EXCEPT ![p] = AfterInstall]
              /\ result' = [result EXCEPT ![p] =
                               IF AfterInstall = "unlock" THEN "ok" ELSE result[p]]
              /\ UNCHANGED hist
         ELSE /\ env' = env
              /\ pc' = [pc EXCEPT ![p] = "cleanup"]
              /\ hist' = [hist EXCEPT ![p].failKind = "install"]
              /\ UNCHANGED result
    /\ UNCHANGED << config, sideVars, lockFile, calls, venvID, deleteOldEnv,
                    readOperationOnly, waited, lockRet, last, lockOld >>

\* after a failed install: `s.RemoveEnv(); return err` (the error of the
\* removal is dropped)
Cleanup(p, ok) ==
    /\ pc[p] = "cleanup"
    /\ env' = IF ok THEN AbsentEnv ELSE env
    /\ pc' = [pc EXCEPT ![p] = "unlock"]
    /\ result' = [result EXCEPT ![p] = "err"]
    /\ hist' = [hist EXCEPT ![p].didRemove = TRUE]
    /\ UNCHANGED << config, sideVars, lockFile, calls, venvID, deleteOldEnv,
                    readOperationOnly, waited, lockRet, last, lockOld >>

\* init mode: os.WriteFile of the info file
WriteInfo(p, ok) ==
    /\ pc[p] = "writeInfo"
    /\ ok => env.exists
    /\ IF ok
         THEN /\ env' = [env EXCEPT !.info = venvID[p]]
              /\ result' = [result EXCEPT ![p] = "ok"]
              /\ UNCHANGED hist
         ELSE /\ env' = env
              /\ result' = [result EXCEPT ![p] = "err"]
              /\ hist' = [hist EXCEPT ![p].failKind = "write"]
    /\ pc' = [pc EXCEPT ![p] = "unlock"]
    /\ UNCHANGED << config, sideVars, lockFile, calls, venvID, deleteOldEnv,
                    readOperationOnly, waited, lockRet, last, lockOld >>

\* `defer unlockEnv(s.EnvDir)` runs as EnsureEnv returns from the locked section
Unlock(p) ==
    /\ pc[p] = "unlock"
    /\ lockFile' = unlockEnv(lockFile)
    /\ lockOld' = FALSE
    /\ hist' = [hist EXCEPT ![p].osRemove = osRemove(lockFile),
                            ![p].unlockRet = unlockErr(osRemove(lockFile))]
    /\ pc' = [pc EXCEPT ![p] = "done"]
    /\ UNCHANGED << config, sideVars, env, calls, venvID, deleteOldEnv,
                    readOperationOnly, waited, lockRet, result, last >>

\* the caller of EnsureEnv goes on; the process may call EnsureEnv again
Leave(p) ==
    /\ pc[p] = "done"
    /\ pc' = [pc EXCEPT ![p] = "idle"]
    /\ venvID' = [venvID EXCEPT ![p] = "idA"]
    /\ deleteOldEnv' = [deleteOldEnv EXCEPT ![p] = FALSE]
    /\ readOperationOnly' = [readOperationOnly EXCEPT ![p] = FALSE]
    /\ lockRet' = [lockRet EXCEPT ![p] = "none"]
    /\ result' = [result EXCEPT ![p] = "none"]
    /\ hist' = [hist EXCEPT ![p] = NoHist]
    /\ UNCHANGED << config, sideVars, lockFile, lockOld, env, calls, waited >>

Return(p) == Leave(p) /\ UNCHANGED last

\* the same return of a sequential caller, remembering a successful call
SeqReturn(p) ==
    /\ Leave(p)
    /\ last' = IF result[p] = "ok"
                 THEN [id |-> venvID[p],
                       absent |-> IF last.id = "none" THEN hist[p].sawAbsent
                                  ELSE last.absent,
                       built |-> hist[p].didCreate \/ last.built]
                 ELSE NoLast

Next ==
    \E p \in Procs :
        \/ \E del \in BOOLEAN, id \in EnvIDs : Start(p, del, id)
        \/ StatEnvDir(p)
        \/ ReadInfo(p)
        \/ WaitCheck(p)
        \/ Sleep(p, FALSE)
        \/ LockStat(p)
        \/ \E ok \in BOOLEAN : LockCreate(p, ok)
        \/ \E ok \in BOOLEAN : RemoveEnv(p, ok)
        \/ \E ok \in BOOLEAN : CreateStart(p, ok)
        \/ \E ok \in BOOLEAN : CreateFinish(p, ok)
        \/ InstallStart(p)
        \/ \E ok \in BOOLEAN : InstallFinish(p, ok)
        \/ \E ok \in BOOLEAN : Cleanup(p, ok)
        \/ \E ok \in BOOLEAN : WriteInfo(p, ok)
        \/ Unlock(p)
        \/ Return(p)

Spec == Init /\ [][Next]_vars

\* one process calling EnsureEnv again and again, nobody else
SeqNext ==
    \E p \in {1} :
        \/ \E del \in BOOLEAN, id \in EnvIDs : SeqStart(p, del, id)
        \/ StatEnvDir(p)
        \/ ReadInfo(p)
        \/ WaitCheck(p)
        \/ \E scanFails \in BOOLEAN : Sleep(p, scanFails)
        \/ LockStat(p)
        \/ \E ok \in BOOLEAN : LockCreate(p, ok)
        \/ \E ok \in BOOLEAN : RemoveEnv(p, ok)
        \/ \E ok \in BOOLEAN : CreateStart(p, ok)
        \/ \E ok \in BOOLEAN : CreateFinish(p, ok)
        \/ InstallStart(p)
        \/ \E ok \in BOOLEAN : InstallFinish(p, ok)
        \/ \E ok \in BOOLEAN : Cleanup(p, ok)
        \/ \E ok \in BOOLEAN : WriteInfo(p, ok)
        \/ Unlock(p)
        \/ SeqReturn(p)

SpecSeq == Init /\ [][SeqNext]_vars

\* ---- the hash-file design: one caller, CreateEnv then InstallRequirementsInEnv
\* the requirements file is edited between runs
EditRequirements(h) ==
    /\ hpc = "idle"
    /\ h # reqHash
    /\ reqHash' = h
    /\ UNCHANGED << outsideHash, hashEnv, pipRuns, hpc, hobs >>

\* CreateEnv(forceNewEnv): os.RemoveAll when forced, then nothing when the
\* directory exists, else virtualenv. rmOk, mkOk: the two steps succeed;
\* left: a failed virtualenv leaves a directory behind.
HashCreateEnv(forceNewEnv, rmOk, mkOk, left) ==
    /\ hpc = "idle"
    /\ pipRuns < MaxPipRuns
    /\ LET removed == IF forceNewEnv /\ rmOk THEN NoHashEnv ELSE hashEnv
       IN  IF forceNewEnv /\ ~rmOk
             THEN /\ hpc' = "idle"
                  /\ hobs' = Obs("createFailed", NoHash)
                  /\ UNCHANGED hashEnv
             ELSE IF removed.exists
               THEN /\ hashEnv' = removed
                    /\ hpc' = "install"
                    /\ hobs' = NoObs
               ELSE IF mkOk
                 THEN /\ hashEnv' = [exists |-> TRUE, hash |-> NoHash]
                      /\ hpc' = "install"
                      /\ hobs' = NoObs
                 ELSE /\ hashEnv' = [exists |-> left, hash |-> NoHash]
                      /\ hpc' = "idle"
                      /\ hobs' = Obs("createFailed", NoHash)
    /\ UNCHANGED << outsideHash, reqHash, pipRuns >>

\* what os.WriteFile leaves in the hash file: the new hash, the old content
\* (the open failed), or a truncated file that equals no hash
HashFileAfterWrite_Never(old, new, written) == old

HashFileAfterWrite(old, new, written) ==
    CASE written = "ok" -> new
      [] written = "openFailed" -> old
      [] OTHER -> NoHash

\* the hash file after pip: os.WriteFile runs only when pip succeeded
HashFileAfterPip_Always(old, new, pipOk, written) ==
    HashFileAfterWrite(old, new, written)

HashFileAfterPip(old, new, pipOk, written) ==
    IF pipOk THEN HashFileAfterWrite(old, new, written) ELSE old

\* InstallRequirementsInEnv(filename)
HashInstallRequirementsInEnv(pipOk, written) ==
    /\ hpc = "install"
    /\ hpc' = "idle"
    /\ IF reqHash = Unreadable
         THEN /\ hobs' = Obs("hashFailed", hashEnv.hash)
              /\ UNCHANGED << hashEnv, pipRuns >>
         ELSE IF SameHash(hashEnv.hash, reqHash)
           THEN /\ hobs' = Obs("skipped", hashEnv.hash)
                /\ UNCHANGED << hashEnv, pipRuns >>
           ELSE /\ pipRuns' = pipRuns + 1
                /\ hashEnv' = [hashEnv EXCEPT
                        !.hash = HashFileAfterPip(@, reqHash, pipOk, written)]
                /\ IF pipOk
                     THEN hobs' = Obs(IF written = "ok" THEN "installed"
                                      ELSE "installedHashNotSaved", hashEnv.hash)
                     ELSE hobs' = Obs("pipFailed", hashEnv.hash)
    /\ UNCHANGED << outsideHash, reqHash >>

\* main variables at rest while the hash-file design runs
MainIdle ==
    /\ linux = TRUE
    /\ fromInitCommand = FALSE
    /\ hasRequirements = TRUE
    /\ lockFile = FALSE
    /\ lockOld = FALSE
    /\ env = AbsentEnv
    /\ calls = 0
    /\ pc = [p \in Procs |-> "idle"]
    /\ venvID = [p \in Procs |-> "idA"]
    /\ deleteOldEnv = [p \in Procs |-> FALSE]
    /\ readOperationOnly = [p \in Procs |-> FALSE]
    /\ waited = [p \in Procs |-> 0]
    /\ lockRet = [p \in Procs |-> "none"]
    /\ result = [p \in Procs |-> "none"]
    /\ hist = [p \in Procs |-> NoHist]
    /\ last = NoLast

HashInit ==
    /\ MainIdle
    /\ hashEnv \in {NoHashEnv} \cup
                   {[exists |-> TRUE, hash |-> h] : h \in Hashes \cup {NoHash}}
    /\ reqHash \in Hashes \cup {Unreadable}
    /\ pipRuns = 0
    /\ hpc = "idle"
    /\ hobs = NoObs
    /\ FpIdle
    /\ ClearIdle
    /\ DirsIdle
    /\ PureIdle

HashNext ==
    \/ \E h \in Hashes \cup {Unreadable} : EditRequirements(h)
    \/ \E forceNewEnv, rmOk, mkOk, left \in BOOLEAN :
           HashCreateEnv(forceNewEnv, rmOk, mkOk, left)
    \/ \E pipOk \in BOOLEAN, written \in {"ok", "openFailed", "truncated"} :
           HashInstallRequirementsInEnv(pipOk, written)

SpecHash == HashInit /\ [][HashNext]_vars

\* ---- the environment ID of two inputs -------------------------------------
\* NewScript runs for both inputs; the first is evaluated twice
ComputeIDs ==
    /\ ~fpOut.done
    /\ fpOut' = [done |-> TRUE, a |-> NewScriptID(fpA), again |-> NewScriptID(fpA),
                 b |-> NewScriptID(fpB)]
    /\ UNCHANGED << mainVars, hashVars, clearVars, dirVars, pureVars, fpA, fpB >>

FpInit ==
    /\ MainIdle
    /\ HashIdle
    /\ fpA \in FpInputs
    /\ fpB \in FpInputs
    /\ fpOut = NoFpOut
    /\ ClearIdle
    /\ DirsIdle
    /\ PureIdle

SpecFp == FpInit /\ [][ComputeIDs]_vars

\* ---- clearStaleEnvs next to one EnsureEnv caller ---------------------------
\* the directory is the one present at the start and no call has removed or
\* created anything in it: only such a directory can have an old ModTime
DirUntouched ==
    /\ env.exists
    /\ \/ calls = 0
       \/ /\ calls = 1
          /\ pc[1] # "idle"
          /\ ~hist[1].didRemove /\ ~hist[1].didCreate /\ ~hist[1].didInstall

\* os.ReadDir of the environments directory: `if entry.IsDir()`
ClearReadDir ==
    /\ cpc = "idle"
    /\ ~fromInitCommand
    /\ cpc' = IF env.exists THEN "info" ELSE "done"
    /\ UNCHANGED << mainVars, hashVars, fpVars, dirVars, pureVars, cobs >>

\* entry.Info() and `time.Since(info.ModTime()) > StaleEnvironmentTime`
ClearInfo(old) ==
    /\ cpc = "info"
    /\ old => DirUntouched
    /\ cpc' = IF env.exists /\ old THEN "isLocked" ELSE "done"
    /\ cobs' = [cobs EXCEPT !.old = old]
    /\ UNCHANGED << mainVars, hashVars, fpVars, dirVars, pureVars >>

\* `if !isEnvLocked(staleEnvAbsPath)`
ClearIsLocked ==
    /\ cpc = "isLocked"
    /\ cpc' = IF isEnvLocked(lockFile) THEN "done" ELSE "scan"
    /\ UNCHANGED << mainVars, hashVars, fpVars, dirVars, pureVars, cobs >>

\* findProcessWithPrefix, called on every platform: it fails where there is
\* no /proc
ClearScan(scanFails) ==
    /\ cpc = "scan"
    /\ ~linux => scanFails
    /\ cpc' = IF ScanResult(scanFails) = "ErrNoProcessFound" THEN "remove" ELSE "done"
    /\ UNCHANGED << mainVars, hashVars, fpVars, dirVars, pureVars, cobs >>

\* removeDir(staleEnvAbsPath); its error is only logged. The environments
\* directory lies under the user's data directory, whose name the program
\* does not choose.
ClearRemove(dir, rmErr, sudoOk) ==
    /\ cpc = "remove"
    /\ cpc' = "done"
    /\ LET r == removeDir(dir, rmErr, sudoOk)
       IN /\ env' = IF r.ret = "nil" THEN AbsentEnv ELSE env
          /\ cobs' = [cobs EXCEPT !.removed = (r.ret = "nil"), !.dir = dir,
                                  !.rmErr = rmErr, !.sudoOk = sudoOk,
                                  !.ret = r.ret, !.sudo = r.sudo]
    /\ UNCHANGED << config, hashVars, fpVars, dirVars, pureVars, lockFile, lockOld, calls, pc, venvID,
                    deleteOldEnv, readOperationOnly, waited, lockRet, result, hist, last >>

ClearNext ==
    \/ \E p \in {1} :
        \/ \E del \in BOOLEAN, id \in EnvIDs : Start(p, del, id)
        \/ StatEnvDir(p)
        \/ ReadInfo(p)
        \/ WaitCheck(p)
        \/ Sleep(p, FALSE)
        \/ LockStat(p)
        \/ \E ok \in BOOLEAN : LockCreate(p, ok)
        \/ \E ok \in BOOLEAN : RemoveEnv(p, ok)
        \/ \E ok \in BOOLEAN : CreateStart(p, ok)
        \/ \E ok \in BOOLEAN : CreateFinish(p, ok)
        \/ InstallStart(p)
        \/ \E ok \in BOOLEAN : InstallFinish(p, ok)
        \/ \E ok \in BOOLEAN : Cleanup(p, ok)
        \/ \E ok \in BOOLEAN : WriteInfo(p, ok)
        \/ Unlock(p)
        \/ Return(p)
    \/ ClearReadDir
    \/ \E old \in BOOLEAN : ClearInfo(old)
    \/ ClearIsLocked
    \/ \E scanFails \in BOOLEAN : ClearScan(scanFails)
    \/ \E dir \in DirPaths, rmErr \in {"nil", "EACCES", "EPERM", "EBUSY"}, sudoOk \in BOOLEAN :
           ClearRemove(dir, rmErr, sudoOk)

SpecClear == Init /\ [][ClearNext]_vars

\* ---- an EnsureEnv call for A next to a waiting call for B -----------------
outsideDirs == << mainVars, hashVars, fpVars, clearVars, pureVars >>

\* A and B are different directories; B may have a marker left behind
DirsInit ==
    /\ MainIdle
    /\ HashIdle /\ FpIdle /\ ClearIdle /\ PureIdle
    /\ dirA \in CleanPaths
    /\ dirB \in CleanPaths \ {dirA}
    /\ markerA = FALSE
    /\ markerB \in BOOLEAN
    /\ phaseA = "idle"
    /\ bpc = "idle"
    /\ bwaited = 0
    /\ bobs = NoBobs

\* EnsureEnv for A: lockEnv
ALock ==
    /\ phaseA = "idle"
    /\ phaseA' = "locked"
    /\ markerA' = TRUE
    /\ UNCHANGED << outsideDirs, dirA, dirB, markerB, bpc, bwaited, bobs >>

\* EnsureEnv for A: CreateEnv starts its command
ACreate ==
    /\ phaseA = "locked"
    /\ phaseA' = "creating"
    /\ UNCHANGED << outsideDirs, dirA, dirB, markerA, markerB, bpc, bwaited, bobs >>

\* EnsureEnv for A: InstallRequirementsInEnv starts pip
AInstall ==
    /\ phaseA = "creating"
    /\ phaseA' = "installing"
    /\ UNCHANGED << outsideDirs, dirA, dirB, markerA, markerB, bpc, bwaited, bobs >>

\* EnsureEnv for A: the deferred unlockEnv
AUnlock ==
    /\ phaseA \in {"locked", "creating", "installing"}
    /\ phaseA' = "idle"
    /\ markerA' = FALSE
    /\ UNCHANGED << outsideDirs, dirA, dirB, markerB, bpc, bwaited, bobs >>

\* EnsureEnv for B enters waitUntilEnvIsUnlocked
BStart ==
    /\ bpc = "idle"
    /\ bpc' = WaitLoopEntry
    /\ bwaited' = 0
    /\ bobs' = NoBobs
    /\ UNCHANGED << outsideDirs, dirA, dirB, markerA, markerB, phaseA >>

\* waitUntilEnvIsUnlocked(B): `if !isEnvLocked(envDir) { return nil }`
BWaitCheck ==
    /\ bpc = "wait"
    /\ IF isEnvLockedDir(dirB)
         THEN /\ bpc' = "sleep"
              /\ bobs' = [bobs EXCEPT !.judgedLocked = TRUE]
         ELSE /\ bpc' = "idle"
              /\ bobs' = [bobs EXCEPT !.ret = "nil"]
    /\ UNCHANGED << outsideDirs, dirA, dirB, markerA, markerB, phaseA, bwaited >>

\* waitUntilEnvIsUnlocked(B): time.Sleep, the age check and the process scan
BSleep ==
    /\ bpc = "sleep"
    /\ LET scan == IF linux /\ ~errStaleLockfile(bwaited)
                     THEN findProcessWithPrefix(dirB) ELSE "skipped"
           err == IF errStaleLockfile(bwaited) THEN "errStaleLockfile"
                  ELSE IF scan # "skipped" /\ ScanMeansStale(scan) THEN "ErrNoProcessFound"
                  ELSE "none"
       IN /\ bobs' = [bobs EXCEPT !.scan = scan, !.ret = err]
          /\ bpc' = IF err # "none" THEN "idle" ELSE "wait"
          /\ bwaited' = IF err # "none" THEN 0 ELSE bwaited + 1
    /\ UNCHANGED << outsideDirs, dirA, dirB, markerA, markerB, phaseA >>

\* EnsureEnv for B after a stale marker: lockEnv ... unlockEnv
BRebuild ==
    /\ bpc = "idle"
    /\ bobs.ret \in {"errStaleLockfile", "ErrNoProcessFound"}
    /\ markerB
    /\ markerB' = FALSE
    /\ UNCHANGED << outsideDirs, dirA, dirB, markerA, phaseA, bpc, bwaited, bobs >>

DirsNext ==
    \/ ALock
    \/ ACreate
    \/ AInstall
    \/ AUnlock
    \/ BStart
    \/ BWaitCheck
    \/ BSleep
    \/ BRebuild

SpecDirs == DirsInit /\ [][DirsNext]_vars

\* ---- calls of getRequirementsFileForScript -------------------------------
RqInit ==
    /\ MainIdle
    /\ HashIdle /\ FpIdle /\ ClearIdle /\ DirsIdle
    /\ rqIn \in RqInputs
    /\ rqOut = NoRqOut
    /\ argsIn = << >>
    /\ argsOut = NoArgsOut

SelectRequirements ==
    /\ ~rqOut.done
    /\ LET r == getRequirementsFileForScript(rqIn.script, rqIn.override,
                                             rqIn.cwdOk, rqIn.fs)
       IN rqOut' = [done |-> TRUE, err |-> r.err, path |-> r.path]
    /\ UNCHANGED << mainVars, hashVars, fpVars, clearVars, dirVars, rqIn, argsIn, argsOut >>

SpecRq == RqInit /\ [][SelectRequirements]_vars

\* ---- calls of organizeArgs -------------------------------------------------
ArgsInit ==
    /\ MainIdle
    /\ HashIdle /\ FpIdle /\ ClearIdle /\ DirsIdle
    /\ rqIn = [script |-> Path("/dir", << "s" >>), override |-> NoPath,
               cwdOk |-> TRUE, fs |-> {}]
    /\ rqOut = NoRqOut
    /\ argsIn \in ArgLists
    /\ argsOut = NoArgsOut

OrganizeArgs ==
    /\ ~argsOut.done
    /\ LET r == organizeArgs(argsIn)
       IN argsOut' = [done |-> TRUE, envVars |-> r.envVars,
                      scriptName |-> r.scriptName, scriptArgs |-> r.scriptArgs]
    /\ UNCHANGED << mainVars, hashVars, fpVars, clearVars, dirVars, rqIn, rqOut, argsIn >>

SpecArgs == ArgsInit /\ [][OrganizeArgs]_vars

\* ---- the record of either design: one caller of EnsureEnv, or the
\* hash-file design (the two are versions of the program and never run
\* together)
RecInit == Init \/ HashInit

RecNext ==
    \/ /\ HashIdle
       /\ \E p \in {1} :
            \/ \E del \in BOOLEAN, id \in EnvIDs : SeqStart(p, del, id)
            \/ StatEnvDir(p)
            \/ ReadInfo(p)
            \/ WaitCheck(p)
            \/ \E scanFails \in BOOLEAN : Sleep(p, scanFails)
            \/ LockStat(p)
            \/ \E ok \in BOOLEAN : LockCreate(p, ok)
            \/ \E ok \in BOOLEAN : RemoveEnv(p, ok)
            \/ \E ok \in BOOLEAN : CreateStart(p, ok)
            \/ \E ok \in BOOLEAN : CreateFinish(p, ok)
            \/ InstallStart(p)
            \/ \E ok \in BOOLEAN : InstallFinish(p, ok)
            \/ \E ok \in BOOLEAN : Cleanup(p, ok)
            \/ \E ok \in BOOLEAN : WriteInfo(p, ok)
            \/ Unlock(p)
            \/ SeqReturn(p)
    \/ /\ MainIdle
       /\ \/ \E h \in Hashes \cup {Unreadable} : EditRequirements(h)
          \/ \E forceNewEnv, rmOk, mkOk, left \in BOOLEAN :
                 HashCreateEnv(forceNewEnv, rmOk, mkOk, left)
          \/ \E pipOk \in BOOLEAN, written \in {"ok", "openFailed", "truncated"} :
                 HashInstallRequirementsInEnv(pipOk, written)

SpecRecord == RecInit /\ [][RecNext]_vars

\* ---- no process crashes and every external tool ends ----------------------
\* no marker is left behind by an earlier run. The calls are those with every
\* step: init mode with a requirements file (outside init mode EnsureEnv
\* skips the info file, without requirements it skips pip).
LiveInit ==
    /\ Init
    /\ ~lockFile
    /\ fromInitCommand
    /\ hasRequirements

\* a step of the EnsureEnv call that p is in
CallStep(p) ==
    \/ StatEnvDir(p)
    \/ ReadInfo(p)
    \/ WaitCheck(p)
    \/ Sleep(p, FALSE)
    \/ LockStat(p)
    \/ \E ok \in BOOLEAN : LockCreate(p, ok)
    \/ \E ok \in BOOLEAN : RemoveEnv(p, ok)
    \/ \E ok \in BOOLEAN : CreateStart(p, ok)
    \/ \E ok \in BOOLEAN : CreateFinish(p, ok)
    \/ InstallStart(p)
    \/ \E ok \in BOOLEAN : InstallFinish(p, ok)
    \/ \E ok \in BOOLEAN : Cleanup(p, ok)
    \/ \E ok \in BOOLEAN : WriteInfo(p, ok)
    \/ Unlock(p)

\* every call that has started goes on until it returns
SpecLive == LiveInit /\ [][Next]_vars /\ \A p \in Procs : WF_vars(CallStep(p))

TypeOK ==
    /\ lockFile \in BOOLEAN
    /\ lockOld \in BOOLEAN
    /\ lockOld => lockFile
    /\ env.exists \in BOOLEAN
    /\ calls \in 0 .. MaxCalls
    /\ \A p \in Procs : waited[p] \in 0 .. LockStalePolls

\* ==== claims ==============================================================
\* lockEnv of the current call returned nil and the call has not yet unlocked
Holding(p) == lockRet[p] = "nil" /\ pc[p] \in LockedSection

\* no step of the current call removed, created or installed
NoMutation(p) ==
    /\ ~hist[p].didRemove
    /\ ~hist[p].didCreate
    /\ ~hist[p].didInstall

\* C1: at most one process is between lockEnv and unlockEnv of EnsureEnv for
\* the environment directory.
C1_Exclusive ==
    \A p, q \in Procs : (InSection(p) /\ InSection(q)) => p = q

\* C2: lock acquisition is an atomic create-if-absent: while one process holds
\* a successful acquisition, a lockEnv call of another process (whether it
\* finds the marker at its stat or creates it after a stat that missed it)
\* does not report success.
C2_AtomicAcquire ==
    [][ \A p, q \in Procs :
            ( /\ p # q
              /\ Holding(q)
              /\ pc[p] \in {"lock", "lockCreate"}
              /\ pc'[p] \in LockedSection )
            => lockRet'[p] # "nil" ]_vars

\* C3: of the concurrent callers that found no environment directory (same
\* environment ID, no step failed), at most one runs the create/install
\* sequence.
C3_SingleBuilder ==
    \A p, q \in Procs :
        ( /\ p # q
          /\ hist[p].sawAbsent /\ hist[q].sawAbsent
          /\ venvID[p] = venvID[q]
          /\ hist[p].failKind = "none" /\ hist[q].failKind = "none"
          /\ lockRet[p] # "err" /\ lockRet[q] # "err" )
        => ~(hist[p].didCreate /\ hist[q].didCreate)

\* C4: whenever the lock marker is absent, no process that acquired the lock
\* is removing, creating or installing into the environment directory.
C4_MarkerIsAuthority ==
    ~lockFile => \A p \in Procs : ~(lockRet[p] = "nil" /\ pc[p] \in Mutating)

C8_RevalidateBeforeBuild ==
    [][ \A p \in Procs :
            ( /\ hist[p].sawAbsent
              /\ ~deleteOldEnv[p]
              /\ \A q \in Procs \ {p} : ~InSection(q)
              /\ pc[p] = "create"
              /\ pc'[p] = "creating" )
            => ~IsValidEnv(env, venvID[p]) ]_vars

\* C9: when a call whose install failed returns, the environment directory
\* does not exist.
C9_InstallFailureCleanup ==
    [][ \A p \in Procs :
            ( /\ pc[p] = "unlock"
              /\ pc'[p] = "done"
              /\ lockRet[p] = "nil"
              /\ hist[p].failKind = "install" )
            => ~env'.exists ]_vars

\* C10: when a call that failed in the locked section (create, install or
\* info-file write) releases the lock, the environment directory has been
\* removed.
C10_FailureRemovesDir ==
    [][ \A p \in Procs :
            ( /\ pc[p] = "unlock"
              /\ pc'[p] = "done"
              /\ lockRet[p] = "nil"
              /\ hist[p].failKind \in {"create", "install", "write"} )
            => ~env.exists ]_vars

ChangedInstallStep ==
    /\ hpc = "install" /\ hpc' = "idle"
    /\ hashEnv.exists /\ hashEnv.hash \in Hashes
    /\ reqHash \in Hashes /\ hashEnv.hash # reqHash

StaleSeen(p) == hist[p].stale # "none"

C15_StaleByMarkerAge ==
    [][ \A p \in Procs :
            (pc[p] = "sleep" /\ pc'[p] # "sleep" /\ lockFile /\ lockOld)
                => StaleSeen(p)' ]_vars

\* C16: when the process scan runs (Linux, time budget not exhausted), it
\* reports no process exactly when no running command line contains the
\* environment directory path as a substring.
C16_ScanBySubstring ==
    [][ \A p \in Procs :
            (pc[p] = "sleep" /\ pc'[p] # "sleep"
               /\ hist'[p].scan \in {"found", "ErrNoProcessFound"})
            => ((hist'[p].stale = "ErrNoProcessFound")
                  = ~(\E q \in Procs : Contains(CmdLine(q), EnvDirPath))) ]_vars

\* C17: waitUntilEnvIsUnlocked sleeps at most LockStalePolls + 1 times: the
\* count of sleeps never passes the budget, and the sleep that exhausts the
\* budget leaves the loop, whatever the marker and the other processes do.
C17_WaitBounded ==
    [][ \A p \in Procs :
            /\ waited'[p] <= LockStalePolls
            /\ (pc[p] = "sleep" /\ pc'[p] # "sleep" /\ waited[p] >= LockStalePolls)
                  => pc'[p] \notin {"wait", "sleep"} ]_vars

\* C17 witness: the wait ended on the time budget while the marker was there
\* and a live process was using the environment
C17_Witness ==
    \E p \in Procs :
        /\ hist[p].stale = "errStaleLockfile"
        /\ pc[p] = "lock"
        /\ lockFile
        /\ ProcessWithPrefix

C19_StaleNotAnError ==
    \A p \in Procs :
        StaleSeen(p) =>
            /\ (pc[p] \in {"lock", "lockCreate"} => result[p] = "none")
            /\ (pc[p] = "done" =>
                  /\ lockRet[p] # "none"
                  /\ result[p] \in {"ok", "err"}
                  /\ (result[p] = "err") = (hist[p].failKind \in
                                               {"remove", "create", "install", "write"}))

\* C19 witness: both kinds of stale report were followed by a successful call
C19_Witness ==
    \E p, q \in Procs :
        /\ pc[p] = "done" /\ result[p] = "ok" /\ hist[p].stale = "ErrNoProcessFound"
        /\ pc[q] = "done" /\ result[q] = "ok" /\ hist[q].stale = "errStaleLockfile"

FpComputed == fpOut.done /\ ~fpOut.a.err /\ ~fpOut.b.err

\* C21: the environment ID of an input is the same on every evaluation, and
\* two inputs have equal IDs exactly when requirements content and
\* interpreter version are both equal.
C21_FingerprintInjective ==
    FpComputed =>
        /\ fpOut.again = fpOut.a
        /\ (fpOut.a.id = fpOut.b.id) = (fpA = fpB)

\* C22: without a requirements file NewScript succeeds with an empty hash,
\* and for the same interpreter version its ID differs from the ID of every
\* readable requirements file, the empty file included.
C22_NoFileDistinct ==
    (fpOut.done /\ ~fpA.file.present) =>
        /\ ~fpOut.a.err
        /\ fpOut.a.hash = << >>
        /\ (fpB.file.present /\ ~fpOut.b.err /\ fpB.version = fpA.version)
              => fpOut.a.id # fpOut.b.id

\* C22 witness: no file against the empty file, same interpreter version
C22_Witness ==
    /\ fpOut.done
    /\ fpA.file = NoFile
    /\ fpB.file = ReqFile(<< >>)
    /\ fpA.version = fpB.version /\ fpA.version # << >>
    /\ fpOut.a.id # fpOut.b.id

\* the current call of p was asked to rebuild by its caller (deleteOldEnv =
\* true from the start, not set by a record mismatch or a stale lock)
Forced(p) == deleteOldEnv[p] /\ hist[p].record = "none" /\ ~StaleSeen(p)

\* C23: a call that reads a record written for another environment ID (the
\* ID contains the interpreter version) is turned into a rebuilding call at
\* once, and from then on it creates only after it has removed the directory
\* and installs only into what it created.
C23_VersionMismatchRebuilds ==
    [][ \A p \in Procs :
            /\ (pc[p] = "info" /\ pc'[p] # "info" /\ env.exists
                  /\ env.info # NoInfo /\ env.info # venvID[p])
                  => (deleteOldEnv'[p] /\ ~readOperationOnly'[p]
                        /\ hist'[p].record = "mismatch")
            /\ hist'[p].record = "mismatch" =>
                  /\ deleteOldEnv'[p]
                  /\ (pc'[p] \in {"create", "creating", "install", "installing",
                                  "cleanup", "writeInfo"} => hist'[p].didRemove)
                  /\ (hist'[p].didCreate => hist'[p].didRemove)
                  /\ (hist'[p].didInstall => hist'[p].didCreate)
                  /\ (pc'[p] = "done" /\ result'[p] = "ok" =>
                        hist'[p].didRemove /\ hist'[p].didCreate) ]_vars

\* C23 witness: the record named another ID; the call removed, created and
\* recorded its own ID
C23_Witness ==
    \E p \in Procs :
        /\ hist[p].record = "mismatch"
        /\ pc[p] = "done" /\ result[p] = "ok"
        /\ hist[p].didRemove /\ hist[p].didCreate
        /\ env.exists /\ env.info = venvID[p]

\* C24: in init mode an info file that cannot be read or that holds another
\* ID never makes EnsureEnv return: the call leaves the read-only path with no
\* result yet, goes through the locked section, and its result is an error
\* exactly when a remove, create, install or info-write step failed.
C24_BadRecordIsCacheMiss ==
    \A p \in Procs :
        hist[p].record \in {"unreadable", "mismatch"} =>
            /\ fromInitCommand
            /\ ~readOperationOnly[p]
            /\ (pc[p] \in {"wait", "sleep", "lock", "lockCreate"} => result[p] = "none")
            /\ (pc[p] = "done" =>
                  /\ lockRet[p] # "none"
                  /\ (result[p] = "err") = (hist[p].failKind \in
                                               {"remove", "create", "install", "write"})
                  /\ (result[p] = "ok" => hist[p].didCreate))

\* C24 witness: the directory had no readable info file and the call rebuilt it
C24_Witness ==
    \E p \in Procs :
        /\ hist[p].record = "unreadable"
        /\ pc[p] = "done" /\ result[p] = "ok"
        /\ hist[p].didCreate
        /\ env.info = venvID[p]

\* C25: a call that judged the directory invalid (info file unreadable or
\* holding another ID), was asked to rebuild, or saw a stale lock, removes the
\* directory before it creates: it is never in CreateEnv without the removal.
C25_InvalidRemovedBeforeCreate ==
    \A p \in Procs :
        (deleteOldEnv[p] \/ hist[p].record \in {"unreadable", "mismatch"}) =>
            /\ (pc[p] \in {"create", "creating"} => hist[p].didRemove)
            /\ (hist[p].didCreate => hist[p].didRemove)

\* C26: a forced call works in the order lock, remove, create, install,
\* release: it removes only while the lock marker exists, creates only after
\* removing, installs only after creating, attempts no create or install after
\* a failed removal, and creates a new environment whenever it succeeds.
C26_ForcedRebuildOrder ==
    [][ \A p \in Procs :
            Forced(p) =>
                /\ (pc[p] = "remove" /\ pc'[p] # "remove") => (lockRet[p] # "none" /\ lockFile)
                /\ (hist'[p].didCreate => hist'[p].didRemove)
                /\ (hist'[p].didInstall => hist'[p].didCreate)
                /\ (hist'[p].failKind = "remove" =>
                        ~hist'[p].didCreate /\ ~hist'[p].didInstall)
                /\ (pc'[p] = "done" /\ result'[p] = "ok" =>
                        hist'[p].didRemove /\ hist'[p].didCreate)
                /\ (pc[p] # "done" /\ pc'[p] = "done" => ~lockFile') ]_vars

\* C29: a sleep whose process scan was not run (not Linux) or failed with an
\* error of its own neither ends the call nor reports the lock abandoned: the
\* wait goes on, and only the time budget ends it.
C29_ScannerOptional ==
    [][ \A p \in Procs :
            (pc[p] = "sleep" /\ pc'[p] # "sleep") =>
                /\ (~linux => hist'[p].scan = "skipped")
                /\ (hist'[p].scan \in {"skipped", "error"} =>
                      /\ result'[p] = result[p]
                      /\ hist'[p].stale \in {"none", "errStaleLockfile"}
                      /\ (hist'[p].stale = "errStaleLockfile") = errStaleLockfile(waited[p])
                      /\ (hist'[p].stale = "none" =>
                            (pc'[p] = "wait" /\ readOperationOnly'[p] = readOperationOnly[p]
                               /\ deleteOldEnv'[p] = deleteOldEnv[p]))) ]_vars

\* C29 witness: on Linux the scan failed and the caller is back at the check
\* of the marker, still waiting
C29_Witness ==
    \E p \in Procs :
        /\ linux
        /\ hist[p].scan = "error"
        /\ pc[p] = "wait"
        /\ waited[p] >= 1
        /\ hist[p].stale = "none"
        /\ lockFile

\* C28: when clearStaleEnvs removes the directory, the directory was found
\* older than StaleEnvironmentTime, and at the moment of the removal it is not
\* locked and no caller is removing, creating or installing in it.
C28_ClearNeverRemovesBusy ==
    [][ (cpc = "remove" /\ cpc' = "done" /\ cobs'.removed) =>
            /\ cobs.old
            /\ ~lockFile
            /\ \A q \in Procs : pc[q] \notin Mutating ]_vars

\* C30: removeDir returns nil when os.RemoveAll succeeds; on a
\* permission-denied error it runs the elevated removal and returns nil
\* exactly when that succeeds; on every other error it returns an error and
\* runs no elevated removal.
C30_RemoveDirEscalation ==
    cobs.ret # "none" =>
        CASE cobs.rmErr = "nil" -> cobs.ret = "nil" /\ ~cobs.sudo
          [] cobs.rmErr = "EACCES" -> cobs.sudo /\ (cobs.ret = "nil") = cobs.sudoOk
          [] OTHER -> cobs.ret = "err" /\ ~cobs.sudo

\* C27: different directories have different lock markers, and neither the
\* marker of A nor a build running in A makes the call for B judge B locked
\* or find a process using B: B is judged locked only on its own marker, and
\* the scan for B never finds a process.
C27_DirsIndependent ==
    [][ /\ generateLockFileName(dirA) # generateLockFileName(dirB)
        /\ (bpc = "wait" /\ bobs'.judgedLocked) => markerB
        /\ (bpc = "sleep" /\ bpc' # "sleep") => bobs'.scan # "found" ]_vars

\* the call got through CreateEnv without an error
CreatedOk(p) ==
    /\ hist[p].didCreate
    /\ hist[p].failKind # "create"
    /\ pc[p] \in {"install", "installing", "cleanup", "writeInfo", "unlock", "done"}

\* C31 as stated: with no requirements file no installer runs, and a call
\* whose CreateEnv succeeded returns success.
C31_NoRequirementsNoOp ==
    ~hasRequirements =>
        \A p \in Procs :
            /\ ~hist[p].didInstall
            /\ pc[p] \notin {"installing", "cleanup"}
            /\ (pc[p] = "done" /\ CreatedOk(p)) => result[p] = "ok"

\* C31 (amended): with no requirements file no installer runs and the install
\* step cannot fail; a call whose CreateEnv succeeded returns success, except
\* in init mode when the write of the info file fails.
C31_NoRequirementsNoOpButRecord ==
    ~hasRequirements =>
        \A p \in Procs :
            /\ ~hist[p].didInstall
            /\ pc[p] \notin {"installing", "cleanup"}
            /\ hist[p].failKind # "install"
            /\ (pc[p] = "done" /\ CreatedOk(p)) =>
                  \/ result[p] = "ok"
                  \/ fromInitCommand /\ hist[p].failKind = "write" /\ result[p] = "err"

\* C31 witness: a call without requirements created the environment, ran no
\* installer and returned success
C31_Witness ==
    /\ ~hasRequirements
    /\ \E p \in Procs :
          /\ pc[p] = "done" /\ CreatedOk(p)
          /\ ~hist[p].didInstall
          /\ result[p] = "ok"

\* C32: a given requirements file is the result (joined to the working
\* directory when relative); with none given the result is the first existing
\* of requirements_<script>.txt, <script>_requirements.txt, requirements.txt
\* in the script's directory; with none existing the result is empty and no
\* error. The only error is a working directory that cannot be determined
\* when a relative path has to be made absolute.
C32_RequirementsSelection ==
    rqOut.done =>
        LET needCwd == \/ ~IsAbs(rqIn.script)
                       \/ rqIn.override # NoPath /\ ~IsAbs(rqIn.override)
            dir == IF IsAbs(rqIn.script) THEN rqIn.script.dir ELSE Cwd
            names == << << "requirements_", "s", ".txt" >>,
                        << "s", "_requirements", ".txt" >>,
                        << "requirements", ".txt" >> >>
            existing == {i \in 1 .. 3 : Path(dir, names[i]) \in rqIn.fs}
        IN  /\ rqOut.err = (needCwd /\ ~rqIn.cwdOk)
            /\ ~rqOut.err =>
                  IF rqIn.override # NoPath
                    THEN rqOut.path = IF IsAbs(rqIn.override) THEN rqIn.override
                                      ELSE Path(Cwd, rqIn.override.file)
                  ELSE IF existing = {} THEN rqOut.path = NoPath
                  ELSE \E i \in existing :
                          /\ \A j \in existing : i <= j
                          /\ rqOut.path = Path(dir, names[i])

\* C32 witness: no file was given, requirements.txt and
\* <script>_requirements.txt both exist next to the script, and the second
\* pattern was chosen
C32_Witness ==
    /\ rqOut.done /\ ~rqOut.err
    /\ rqIn.override = NoPath
    /\ rqIn.script = Path("/dir", << "s", ".py" >>)
    /\ Path("/dir", << "requirements", ".txt" >>) \in rqIn.fs
    /\ Path("/dir", << "s", "_requirements", ".txt" >>) \in rqIn.fs
    /\ Path("/dir", << "requirements_", "s", ".txt" >>) \notin rqIn.fs
    /\ rqOut.path = Path("/dir", << "s", "_requirements", ".txt" >>)

\* the arguments before the first one without '='
LeadingEq(args) ==
    IF \E i \in 1 .. Len(args) : ~(\E c \in 1 .. Len(args[i]) : args[i][c] = "=")
      THEN (CHOOSE i \in 1 .. Len(args) :
               /\ ~(\E c \in 1 .. Len(args[i]) : args[i][c] = "=")
               /\ \A j \in 1 .. i - 1 : \E c \in 1 .. Len(args[j]) : args[j][c] = "=") - 1
      ELSE Len(args)

\* C33 as stated: the groups are the leading arguments with '=', the first
\* argument without '=', and the rest; put together (the name left out when
\* it is empty) they are the argument list; the name is empty exactly when
\* every argument contains '='.
C33_ArgsPartition ==
    argsOut.done =>
        LET k == LeadingEq(argsIn)
            name == IF argsOut.scriptName = << >> THEN << >>
                    ELSE << argsOut.scriptName >>
        IN  /\ argsOut.envVars = SubSeq(argsIn, 1, k)
            /\ argsOut.envVars \o name \o argsOut.scriptArgs = argsIn
            /\ (argsOut.scriptName = << >>) = (k = Len(argsIn))

\* C33 (amended): the groups are the leading arguments with '=', the first
\* argument without '=' when there is one, and the rest; put together they
\* are the argument list; the name is empty exactly when every argument
\* contains '=' or the first one without '=' is the empty text.
C33_ArgsPartitionEmptyName ==
    argsOut.done =>
        LET k == LeadingEq(argsIn)
            name == IF k < Len(argsIn) THEN << argsOut.scriptName >> ELSE << >>
        IN  /\ argsOut.envVars = SubSeq(argsIn, 1, k)
            /\ k < Len(argsIn) => argsOut.scriptName = argsIn[k + 1]
            /\ argsOut.envVars \o name \o argsOut.scriptArgs = argsIn
            /\ (argsOut.scriptName = << >>) =
                  (k = Len(argsIn) \/ argsIn[k + 1] = << >>)

\* C33 witness: a variable, a script name and a script argument with '='
C33_Witness ==
    /\ argsOut.done
    /\ argsIn = << << "=" >>, << "a" >>, << "=" >> >>
    /\ argsOut.envVars = << << "=" >> >>
    /\ argsOut.scriptName = << "a" >>
    /\ argsOut.scriptArgs = << << "=" >> >>

\* C34: when an EnsureEnv call returns success, the environment directory
\* exists at that moment, completely created and with its requirements
\* installed, and in init mode its info file holds the caller's ID.
C34_SuccessMeansReady ==
    [][ \A p \in Procs :
            (pc[p] # "done" /\ pc'[p] = "done" /\ result'[p] = "ok") =>
                /\ env'.exists
                /\ env'.built
                /\ hasRequirements => env'.installed
                /\ fromInitCommand => env'.info = venvID[p] ]_vars

\* C35: while another call holds the lock and is inside its locked section,
\* the process scan of a waiting call does not end in ErrNoProcessFound (the
\* waiter does not go on to delete and rebuild).
C35_LiveHolderNotStale ==
    [][ \A p \in Procs :
            ( /\ pc[p] = "sleep" /\ pc'[p] # "sleep"
              /\ \E q \in Procs \ {p} : Holding(q) )
            => hist'[p].stale # "ErrNoProcessFound" ]_vars

\* C36: of the calls whose wait reported a stale lock, at most one at a time
\* is removing and rebuilding the environment.
C36_SingleTakeover ==
    \A p, q \in Procs :
        ( /\ p # q
          /\ StaleSeen(p) /\ StaleSeen(q) )
        => ~(pc[p] \in Mutating /\ pc[q] \in Mutating)

\* C37: a call whose lockEnv failed removes, creates and installs nothing and
\* returns an error.
C37_NoMutationWithoutLock ==
    \A p \in Procs :
        lockRet[p] = "err" =>
            /\ pc[p] \notin Mutating
            /\ NoMutation(p)
            /\ pc[p] = "done" => result[p] = "err"

\* the record is written only in a call whose create and install succeeded,
\* and a call whose install failed leaves the stored value or removes it
RecordOnlyAfterInstall ==
    /\ (env'.info # env.info /\ env'.info # NoInfo) =>
          /\ pc[1] = "writeInfo" /\ CreatedOk(1) /\ env.built
          /\ hasRequirements => (hist[1].didInstall /\ env.installed)
          /\ hist[1].failKind = "none"
          /\ env'.info = venvID[1]
    /\ (pc'[1] # pc[1] /\ hist'[1].failKind = "install") =>
          env'.info \in {env.info, NoInfo}
    /\ (hashEnv'.hash # hashEnv.hash /\ hashEnv'.hash \in Hashes) =>
          /\ hpc = "install" /\ hobs'.out = "installed"
          /\ hashEnv'.hash = reqHash
    /\ (hpc = "install" /\ hobs'.out = "pipFailed") => hashEnv' = hashEnv

====
